---- MODULE Spec2Model ----
(***************************************************************************)
(* gget: a minimal Gemini client.                                          *)
(*   src/src/gemini.rs  request framing, response parsing, classification  *)
(*   src/src/main.rs    fetch (one round trip) and recursive_fetch         *)
(* Strings are modelled as their UTF-8 byte sequences (a Rust String is a  *)
(* byte vector that is valid UTF-8); a byte is a number in 0..255.         *)
(***************************************************************************)
EXTENDS Integers, Sequences, FiniteSets, TLC

(* ------------------------------ bounds -------------------------------- *)
\* longest byte buffer handed to the codec
MaxLen == 7
\* width in bits of the modelled redirect counter (u32 in the source)
CounterBits == 2
\* fetch attempts, beyond those a full counter allows, that a run is followed for
ExtraAttempts == 2

VARIABLES
    \* codec exercise: the input buffer or status, and what the codec returned
    cbuf, cstatus, cstep, creq, cres, ccat,
    \* recursive_fetch: its locals, the position in it, and the transport
    pc, max_redirects, redirects, current_url, read_buf, response, outcome,
    open, attempts, redirCount, requested, prevMeta, truncated, lastError, overflowed

codecVars == <<cbuf, cstatus, cstep, creq, cres, ccat>>
fetchVars == <<pc, max_redirects, redirects, current_url, read_buf, response, outcome,
               open, attempts, redirCount, requested, prevMeta, truncated, lastError,
               overflowed>>
vars == <<codecVars, fetchVars>>

(* ------------------------------ bytes --------------------------------- *)
CR == 13
LF == 10
SP == 32
CRLF == <<CR, LF>>

\* the bytes the codec is exercised on: LF, CR, space, '3', and the two
\* bytes of U+00E9 (0xC3 0xA9), each of which alone is invalid UTF-8
Bytes == {10, 13, 32, 51, 169, 195}

\* the byte sequences of exactly n bytes
Buffers(n) == [1..n -> Bytes]

(* ------------------------ std::str::from_utf8 -------------------------- *)
IsCont(b) == b >= 128 /\ b <= 191

\* number of bytes of the well-formed UTF-8 sequence starting at s[i],
\* or 0 when no well-formed sequence starts there
Utf8Width(s, i) ==
    LET n == Len(s)
        b0 == s[i]
        c(k) == i + k <= n /\ IsCont(s[i + k])
        r(k, lo, hi) == i + k <= n /\ s[i + k] >= lo /\ s[i + k] <= hi
    IN  IF b0 < 128 THEN 1
        ELSE IF b0 >= 194 /\ b0 <= 223 THEN (IF c(1) THEN 2 ELSE 0)
        ELSE IF b0 = 224 THEN (IF r(1, 160, 191) /\ c(2) THEN 3 ELSE 0)
        ELSE IF (b0 >= 225 /\ b0 <= 236) \/ b0 = 238 \/ b0 = 239
             THEN (IF c(1) /\ c(2) THEN 3 ELSE 0)
        ELSE IF b0 = 237 THEN (IF r(1, 128, 159) /\ c(2) THEN 3 ELSE 0)
        ELSE IF b0 = 240 THEN (IF r(1, 144, 191) /\ c(2) /\ c(3) THEN 4 ELSE 0)
        ELSE IF b0 >= 241 /\ b0 <= 243 THEN (IF c(1) /\ c(2) /\ c(3) THEN 4 ELSE 0)
        ELSE IF b0 = 244 THEN (IF r(1, 128, 143) /\ c(2) /\ c(3) THEN 4 ELSE 0)
        ELSE 0

RECURSIVE Utf8From(_, _)
Utf8From(s, i) ==
    IF i > Len(s) THEN TRUE
    ELSE LET w == Utf8Width(s, i)
         IN  IF w = 0 THEN FALSE ELSE Utf8From(s, i + w)

IsUtf8(s) == Utf8From(s, 1)

\* str::is_char_boundary: offset 0 and len are boundaries, an offset
\* inside the string is one unless its byte is a continuation byte
IsCharBoundary(s, off) ==
    \/ off = 0
    \/ off = Len(s)
    \/ off < Len(s) /\ ~IsCont(s[off + 1])

(* ------------------------------ results -------------------------------- *)
NoBytes == << >>

OkResponse(status, meta, body) ==
    [tag |-> "Ok", err |-> "", status |-> status, meta |-> meta, body |-> body]

ErrResponse(e) ==
    [tag |-> "Err", err |-> e, status |-> NoBytes, meta |-> NoBytes, body |-> NoBytes]

NoResponse ==
    [tag |-> "None", err |-> "", status |-> NoBytes, meta |-> NoBytes, body |-> NoBytes]

OkCategory(c) == [tag |-> "Ok", cat |-> c, arg |-> NoBytes]
ErrUnknownStatus(status) == [tag |-> "Err", cat |-> "UnknownStatus", arg |-> status]
PanicCategory == [tag |-> "Panic", cat |-> "", arg |-> NoBytes]
NoCategory == [tag |-> "None", cat |-> "", arg |-> NoBytes]

(* ------------------------------ gemini.rs ------------------------------ *)
\* &status[0..1] panics when the string is empty or offset 1 falls inside
\* a multi-byte character
status_category(status) ==
    IF Len(status) < 1 \/ ~IsCharBoundary(status, 1) THEN PanicCategory
    ELSE LET first == SubSeq(status, 1, 1)
         IN  IF first = <<49>> THEN OkCategory("Input")
             ELSE IF first = <<50>> THEN OkCategory("Success")
             ELSE IF first = <<51>> THEN OkCategory("Redirect")
             ELSE IF first = <<52>> THEN OkCategory("TemporaryFailure")
             ELSE IF first = <<53>> THEN OkCategory("PermanentFailure")
             ELSE IF first = <<54>> THEN OkCategory("ClientCertificateRequired")
             ELSE ErrUnknownStatus(status)

\* mutant of find_first: the last matching window instead of the first
find_last(haystack, needle) ==
    LET n == Len(needle)
        hits == {i \in 0..(Len(haystack) - n) : SubSeq(haystack, i + 1, i + n) = needle}
    IN  IF hits = {} THEN -1
        ELSE CHOOSE i \in hits : \A j \in hits : i >= j

\* offset (from 0) of the first window of haystack equal to needle, -1 for None
find_first(haystack, needle) ==
    LET n == Len(needle)
        hits == {i \in 0..(Len(haystack) - n) : SubSeq(haystack, i + 1, i + n) = needle}
    IN  IF hits = {} THEN -1
        ELSE CHOOSE i \in hits : \A j \in hits : i <= j

\* mutant of parse_header: the bytes are decoded before the space is looked for
parse_header_decode_first(header) ==
    IF Len(header) <= 2 THEN ErrResponse("HeaderTooShort")
    ELSE LET raw_status == SubSeq(header, 1, 2)
             raw_meta == SubSeq(header, 4, Len(header))
         IN  IF ~IsUtf8(raw_status) THEN ErrResponse("Utf8Error")
             ELSE IF ~IsUtf8(raw_meta) THEN ErrResponse("Utf8Error")
             ELSE IF header[3] # SP THEN ErrResponse("MissingSpaceCharacter")
             ELSE OkResponse(raw_status, raw_meta, NoBytes)

\* the header of the result is filled in, its body left empty
parse_header(header) ==
    IF Len(header) <= 2 THEN ErrResponse("HeaderTooShort")
    ELSE LET raw_status == SubSeq(header, 1, 2)
         IN  IF header[3] # SP THEN ErrResponse("MissingSpaceCharacter")
             ELSE LET raw_meta == SubSeq(header, 4, Len(header))
                  IN  IF ~IsUtf8(raw_status) THEN ErrResponse("Utf8Error")
                      ELSE IF ~IsUtf8(raw_meta) THEN ErrResponse("Utf8Error")
                      ELSE OkResponse(raw_status, raw_meta, NoBytes)

parse_response(plaintext) ==
    LET split_loc == find_first(plaintext, CRLF)
    IN  IF split_loc = -1 THEN ErrResponse("MissingCRLF")
        ELSE LET raw_header == SubSeq(plaintext, 1, split_loc)
                 raw_body == SubSeq(plaintext, split_loc + Len(CRLF) + 1, Len(plaintext))
                 header == parse_header(raw_header)
             IN  IF header.tag = "Err" THEN header
                 ELSE IF ~IsUtf8(raw_body) THEN ErrResponse("Utf8Error")
                 ELSE OkResponse(header.status, header.meta, raw_body)

\* mutant of request: the line feed is left out
request_cr_only(url) == url \o <<CR>>

request(url) == url \o CRLF

(* --------------------------- codec exercise ---------------------------- *)
\* the characters statuses are built from: '1'..'7', 'x' and U+00E9
StatusChars == {<<49>>, <<50>>, <<51>>, <<52>>, <<53>>, <<54>>, <<55>>, <<120>>, <<195, 169>>}
Statuses == {a \o b : a \in StatusChars, b \in StatusChars}

NoOutcome == [kind |-> "None", err |-> "", arg |-> 0, response |-> NoResponse]

FetchIdle ==
    /\ pc = "idle" /\ max_redirects = 0 /\ redirects = 0 /\ current_url = NoBytes
    /\ read_buf = NoBytes /\ response = NoResponse /\ outcome = NoOutcome
    /\ open = 0 /\ attempts = 0 /\ redirCount = 0 /\ requested = NoBytes
    /\ prevMeta = NoBytes /\ truncated = FALSE /\ lastError = "" /\ overflowed = FALSE

CodecInit ==
    /\ cbuf = NoBytes /\ cstatus = NoBytes
    /\ cstep = "start" /\ creq = NoBytes /\ cres = NoResponse /\ ccat = NoCategory
    /\ FetchIdle

\* gemini::request on a URL of any bytes
CodecRequest ==
    /\ cstep = "start"
    /\ \E n \in 0..(MaxLen - Len(CRLF)) : \E url \in Buffers(n) :
          /\ cbuf' = url
          /\ creq' = request(url)
    /\ cstep' = "requested"
    /\ UNCHANGED <<cstatus, cres, ccat, fetchVars>>

\* gemini::parse_response on a buffer of any bytes
CodecParse ==
    /\ cstep = "start"
    /\ \E n \in 0..MaxLen : \E plaintext \in Buffers(n) :
          /\ cbuf' = plaintext
          /\ cres' = parse_response(plaintext)
    /\ cstep' = "parsed"
    /\ UNCHANGED <<cstatus, creq, ccat, fetchVars>>

\* gemini::parse_response on the encoded request
CodecParseRequest ==
    /\ cstep = "requested"
    /\ cres' = parse_response(creq)
    /\ cstep' = "echoed"
    /\ UNCHANGED <<cbuf, cstatus, creq, ccat, fetchVars>>

\* gemini::status_category on a decoded status (main.rs:81, main.rs:97)
CodecClassifyParsed ==
    /\ cstep \in {"parsed", "echoed"} /\ cres.tag = "Ok"
    /\ cstatus' = cres.status
    /\ ccat' = status_category(cres.status)
    /\ cstep' = "classified"
    /\ UNCHANGED <<cbuf, creq, cres, fetchVars>>

\* gemini::status_category called directly on a status string
CodecClassifyStatus ==
    /\ cstep = "start"
    /\ \E status \in Statuses :
          /\ cstatus' = status
          /\ ccat' = status_category(status)
    /\ cstep' = "classified"
    /\ UNCHANGED <<cbuf, creq, cres, fetchVars>>

CodecNext ==
    CodecRequest \/ CodecParse \/ CodecParseRequest \/ CodecClassifyParsed \/ CodecClassifyStatus

SpecCodec == CodecInit /\ [][CodecNext]_vars

(* ------------------------------- main.rs ------------------------------ *)
\* largest value of the redirect counter
MaxCounter == 2 ^ CounterBits - 1

\* what the servers of the model answer:
\*   "30 a\r\n", "31 b\r\n", "20 t\r\nok", "51 x\r\n", "70 \r\n",
\*   0xC3 0xA9 " \r\n" and "20" (no terminator)
ServerResponses ==
    { <<51, 48, 32, 97, 13, 10>>,
      <<51, 49, 32, 98, 13, 10>>,
      <<50, 48, 32, 116, 13, 10, 111, 107>>,
      <<53, 49, 32, 120, 13, 10>>,
      <<55, 48, 32, 13, 10>>,
      <<195, 169, 32, 13, 10>>,
      <<50, 48>> }

\* the URL given on the command line: "a"
StartUrls == { <<97>> }

\* how Url::parse, the scheme and host checks and TcpStream::connect can end
ConnectResults ==
    {"ok", "invalid URL", "unknown scheme", "invalid host", "invalid DNS name",
     "connection failed"}

\* how read_to_end can end: Ok, or an io::Error of kind ConnectionAborted,
\* or an io::Error of any other kind
ReadResults == {"Ok", "ConnectionAborted", "Other"}

OkOutcome(r) == [kind |-> "Ok", err |-> "", arg |-> 0, response |-> r]
ErrOutcome(e, n) == [kind |-> "Err", err |-> e, arg |-> n, response |-> NoResponse]
PanicOutcome(e) == [kind |-> "Panic", err |-> e, arg |-> 0, response |-> NoResponse]

CodecIdle ==
    /\ cbuf = NoBytes /\ cstatus = NoBytes /\ cstep = "idle" /\ creq = NoBytes
    /\ cres = NoResponse /\ ccat = NoCategory

Init ==
    /\ CodecIdle
    /\ pc = "loop"
    /\ max_redirects \in 0..MaxCounter
    /\ redirects = 0
    /\ current_url \in StartUrls
    /\ read_buf = NoBytes /\ response = NoResponse /\ outcome = NoOutcome
    /\ open = 0 /\ attempts = 0 /\ redirCount = 0 /\ requested = NoBytes
    /\ prevMeta = NoBytes /\ truncated = FALSE /\ lastError = "" /\ overflowed = FALSE

\* `while redirects <= max_redirects`
LoopCondition(r, m) == r <= m

\* `redirects += 1` on the counter's width
Incremented(r) == (r + 1) % (2 ^ CounterBits)

\* mutant of Fail: the error is dropped and the loop tries again
FailRetry(e, n) ==
    /\ outcome' = outcome
    /\ lastError' = e
    /\ open' = 0
    /\ pc' = "loop"

\* an Err leaving recursive_fetch through `?`; the attempt's stream, if one
\* is open, is dropped on the way out of fetch
Fail(e, n) ==
    /\ outcome' = ErrOutcome(e, n)
    /\ lastError' = e
    /\ open' = 0
    /\ pc' = "done"

\* the loop test, and the Err after the loop
LoopTest ==
    /\ pc = "loop"
    /\ IF LoopCondition(redirects, max_redirects)
       THEN /\ attempts < MaxCounter + 1 + ExtraAttempts
            /\ attempts' = attempts + 1
            /\ requested' = current_url
            /\ response' = NoResponse
            /\ read_buf' = NoBytes
            /\ truncated' = FALSE
            /\ pc' = "connect"
            /\ UNCHANGED <<outcome, lastError, open>>
       ELSE /\ Fail("TooManyRedirects", max_redirects)
            /\ UNCHANGED <<attempts, requested, response, read_buf, truncated>>
    /\ UNCHANGED <<codecVars, max_redirects, redirects, current_url,
                   redirCount, prevMeta, overflowed>>

\* fetch, up to the stream being open
FetchConnect ==
    /\ pc = "connect"
    /\ \E r \in ConnectResults :
          IF r = "ok"
          THEN /\ open' = open + 1
               /\ pc' = "write"
               /\ UNCHANGED <<outcome, lastError>>
          ELSE Fail(r, 0)
    /\ UNCHANGED <<codecVars, max_redirects, redirects, current_url, read_buf, response,
                   attempts, redirCount, requested, prevMeta, truncated, overflowed>>

\* fetch: the request is written
FetchWrite ==
    /\ pc = "write"
    /\ \/ /\ pc' = "read"
          /\ UNCHANGED <<outcome, lastError, open>>
       \/ Fail("failed sending gemini request", 0)
    /\ UNCHANGED <<codecVars, max_redirects, redirects, current_url, read_buf, response,
                   attempts, redirCount, requested, prevMeta, truncated, overflowed>>

\* which endings of read_to_end are not an error of fetch
ReadAccepted(kind) == kind \in {"Ok", "ConnectionAborted"}

\* fetch: read_to_end. The server sends `full`; n bytes of it arrive before
\* the read ends, all of them when it ends with Ok
FetchRead ==
    /\ pc = "read"
    /\ \E full \in ServerResponses, kind \in ReadResults :
       \E n \in 0..Len(full) :
          /\ kind = "Ok" => n = Len(full)
          /\ read_buf' = SubSeq(full, 1, n)
          /\ truncated' = (n < Len(full))
          /\ IF ReadAccepted(kind)
             THEN /\ pc' = "parse"
                  /\ UNCHANGED <<outcome, lastError, open>>
             ELSE Fail("TLS read error", 0)
    /\ UNCHANGED <<codecVars, max_redirects, redirects, current_url, response,
                   attempts, redirCount, requested, prevMeta, overflowed>>

\* fetch: the buffer is parsed and fetch returns, dropping the stream
FetchParse ==
    /\ pc = "parse"
    /\ LET parsed == parse_response(read_buf)
       IN  IF parsed.tag = "Ok"
           THEN /\ response' = parsed
                /\ open' = open - 1
                /\ pc' = "classify"
                /\ UNCHANGED <<outcome, lastError>>
           ELSE /\ Fail(parsed.err, 0)
                /\ UNCHANGED response
    /\ UNCHANGED <<codecVars, max_redirects, redirects, current_url, read_buf,
                   attempts, redirCount, requested, prevMeta, truncated, overflowed>>

\* mutant of IsRedirect: every category but Success is followed
IsNotSuccess(category) == category.cat # "Success"

\* the arm `gemini::StatusCategory::Redirect` of the match
IsRedirect(category) == category.cat = "Redirect"

\* `current_url = response.header.meta`
NextUrl(cur, resp) == resp.meta

\* the match on the status category. An increment of a full counter
\* panics in a build with overflow checks and wraps in one without
Classify ==
    /\ pc = "classify"
    /\ LET category == status_category(response.status)
       IN  CASE category.tag = "Panic" ->
                  /\ outcome' = PanicOutcome("byte index 1 is not a char boundary")
                  /\ pc' = "done"
                  /\ UNCHANGED <<redirects, current_url, redirCount, prevMeta,
                                 lastError, open, overflowed>>
             [] category.tag = "Err" ->
                  /\ Fail(category.cat, 0)
                  /\ UNCHANGED <<redirects, current_url, redirCount, prevMeta, overflowed>>
             [] category.tag = "Ok" /\ IsRedirect(category) ->
                  /\ redirCount' = redirCount + 1
                  /\ IF redirects + 1 > MaxCounter
                     THEN /\ overflowed' = TRUE
                          /\ \/ /\ outcome' = PanicOutcome("attempt to add with overflow")
                                /\ pc' = "done"
                                /\ UNCHANGED <<redirects, current_url, prevMeta>>
                             \/ /\ redirects' = Incremented(redirects)
                                /\ current_url' = NextUrl(current_url, response)
                                /\ prevMeta' = response.meta
                                /\ pc' = "loop"
                                /\ UNCHANGED outcome
                     ELSE /\ redirects' = Incremented(redirects)
                          /\ current_url' = NextUrl(current_url, response)
                          /\ prevMeta' = response.meta
                          /\ pc' = "loop"
                          /\ UNCHANGED <<outcome, overflowed>>
                  /\ UNCHANGED <<lastError, open>>
             [] OTHER ->
                  /\ outcome' = OkOutcome(response)
                  /\ pc' = "done"
                  /\ UNCHANGED <<redirects, current_url, redirCount, prevMeta,
                                 lastError, open, overflowed>>
    /\ UNCHANGED <<codecVars, max_redirects, read_buf, response, attempts, requested,
                   truncated>>

Next == LoopTest \/ FetchConnect \/ FetchWrite \/ FetchRead \/ FetchParse \/ Classify

Spec == Init /\ [][Next]_vars

(* ============================ codec claims ============================= *)
\* the buffer has the bytes CR LF at offsets k, k+1 (from 0)
CrLfAt(b, k) == k + 2 <= Len(b) /\ b[k + 1] = CR /\ b[k + 2] = LF
\* every offset at which the buffer has CR LF
CrLfOffsets(b) == {k \in 0..(Len(b) - 2) : b[k + 1] = CR /\ b[k + 2] = LF}
ContainsCrLf(b) == CrLfOffsets(b) # {}
\* k is the offset of the first CR LF of the buffer
FirstCrLfAt(b, k) == CrLfAt(b, k) /\ \A j \in 0..(k - 1) : ~CrLfAt(b, j)
\* the lengths m of zzz for which b reads XY, space, zzz, CR LF, trailing
FramedMetaLens(b) == {m \in 0..Len(b) : Len(b) >= 3 /\ b[3] = SP /\ CrLfAt(b, 3 + m)}
Framed(b, m) ==
    OkResponse(SubSeq(b, 1, 2), SubSeq(b, 4, 3 + m), SubSeq(b, 6 + m, Len(b)))

\* C3 as stated: every buffer XY, space, zzz, CR LF, trailing bytes decodes to
\* status XY, meta zzz and body = the trailing bytes, whatever the bytes are
C3_AnyFramedBufferDecodes ==
    cstep = "parsed" =>
        \A m \in FramedMetaLens(cbuf) : cres = Framed(cbuf, m)

\* C3 amended: a buffer XY, space, zzz, CR LF, trailing bytes, in which XY, zzz
\* and the trailing bytes are valid UTF-8 and "XY zzz" holds no CR LF, decodes
\* to status XY, meta zzz and body = all the trailing bytes (empty or holding
\* CR LF themselves): the split is at the first CR LF of the buffer
C3_ValidFramedBufferDecodes ==
    cstep = "parsed" =>
        \A m \in FramedMetaLens(cbuf) :
            ( /\ IsUtf8(SubSeq(cbuf, 1, 2))
              /\ IsUtf8(SubSeq(cbuf, 4, 3 + m))
              /\ IsUtf8(SubSeq(cbuf, 6 + m, Len(cbuf)))
              /\ ~ContainsCrLf(SubSeq(cbuf, 1, 3 + m)) )
            => cres = Framed(cbuf, m)

\* a decoded buffer whose body itself holds CR LF
C3_Witness ==
    /\ cstep = "parsed" /\ cres.tag = "Ok"
    /\ ContainsCrLf(cres.body)
    /\ FramedMetaLens(cbuf) # {}

\* C4: parse_response reports the first failing step in the order: no CR LF in
\* the buffer, header before the first CR LF shorter than 3 bytes, header byte 2
\* not a space, status or meta not UTF-8, body not UTF-8; a failure yields no
\* Response, and a header fault wins over an invalid body
C4_ErrorOrder ==
    cstep = "parsed" =>
        /\ CrLfOffsets(cbuf) = {} => cres = ErrResponse("MissingCRLF")
        /\ \A k \in CrLfOffsets(cbuf) : (\A j \in CrLfOffsets(cbuf) : k <= j) =>
              LET header == SubSeq(cbuf, 1, k)
                  body == SubSeq(cbuf, k + 3, Len(cbuf))
              IN  IF k < 3 THEN cres = ErrResponse("HeaderTooShort")
                  ELSE IF header[3] # SP THEN cres = ErrResponse("MissingSpaceCharacter")
                  ELSE IF ~IsUtf8(SubSeq(header, 1, 2)) \/ ~IsUtf8(SubSeq(header, 4, k))
                       THEN cres = ErrResponse("Utf8Error")
                  ELSE IF ~IsUtf8(body) THEN cres = ErrResponse("Utf8Error")
                  ELSE cres.tag = "Ok"
        /\ cres.tag = "Err" => cres.status = NoBytes /\ cres.meta = NoBytes /\ cres.body = NoBytes

\* a framing fault of the header reported for a buffer whose body is invalid too
C4_Witness ==
    /\ cstep = "parsed"
    /\ cres = ErrResponse("MissingSpaceCharacter")
    /\ \E k \in 0..Len(cbuf) :
          /\ FirstCrLfAt(cbuf, k)
          /\ ~IsUtf8(SubSeq(cbuf, 1, 2))
          /\ ~IsUtf8(SubSeq(cbuf, k + 3, Len(cbuf)))

\* the first character of a string: the bytes of its first UTF-8 sequence
FirstChar(str) == SubSeq(str, 1, Utf8Width(str, 1))

\* C5: status_category looks at the first character only: '1'..'6' give the six
\* categories whatever follows, and any other first character gives
\* UnknownStatus carrying the whole status
C5_ClassifyByFirstChar ==
    cstep = "classified" =>
        LET first == FirstChar(cstatus)
        IN  /\ first = <<49>> => ccat = OkCategory("Input")
            /\ first = <<50>> => ccat = OkCategory("Success")
            /\ first = <<51>> => ccat = OkCategory("Redirect")
            /\ first = <<52>> => ccat = OkCategory("TemporaryFailure")
            /\ first = <<53>> => ccat = OkCategory("PermanentFailure")
            /\ first = <<54>> => ccat = OkCategory("ClientCertificateRequired")
            /\ first \notin {<<49>>, <<50>>, <<51>>, <<52>>, <<53>>, <<54>>}
                  => ccat = ErrUnknownStatus(cstatus)

\* C6 as stated: parse_response of request(u) fails with MissingCRLF for every u
C6_EchoMissesTerminator ==
    cstep = "echoed" => cres = ErrResponse("MissingCRLF")

\* C6 amended: request(u) is u followed by CR LF, so parse_response of it never
\* fails with MissingCRLF; for a u holding no CR LF the whole of u is the header
\* and the body is empty: HeaderTooShort when u is shorter than 3 bytes,
\* MissingSpaceCharacter when its third byte is not a space, otherwise status
\* u[0..2] and meta u[3..] when both are UTF-8 and Utf8Error when not
C6_EchoDecodesAsHeader ==
    cstep = "echoed" =>
        /\ creq = cbuf \o <<CR, LF>>
        /\ cres # ErrResponse("MissingCRLF")
        /\ ~ContainsCrLf(cbuf) =>
              IF Len(cbuf) < 3 THEN cres = ErrResponse("HeaderTooShort")
              ELSE IF cbuf[3] # SP THEN cres = ErrResponse("MissingSpaceCharacter")
              ELSE IF IsUtf8(SubSeq(cbuf, 1, 2)) /\ IsUtf8(SubSeq(cbuf, 4, Len(cbuf)))
                   THEN cres = OkResponse(SubSeq(cbuf, 1, 2), SubSeq(cbuf, 4, Len(cbuf)), NoBytes)
              ELSE cres = ErrResponse("Utf8Error")

\* an encoded request that decodes as a response
C6_Witness ==
    cstep = "echoed" /\ cres.tag = "Ok" /\ ~ContainsCrLf(cbuf)

\* C7: a decoded status is exactly 2 ASCII bytes, and classifying it returns a
\* category or UnknownStatus: it never aborts
C7_DecodedStatusClassifies ==
    /\ (cstep \in {"parsed", "echoed"} /\ cres.tag = "Ok") =>
          /\ Len(cres.status) = 2
          /\ \A i \in 1..Len(cres.status) : cres.status[i] < 128
    /\ (cstep = "classified" /\ cres.tag = "Ok") => ccat.tag \in {"Ok", "Err"}

(* ============================ fetch claims ============================= *)
\* every response received so far was a redirect that recursive_fetch followed
\* (an attempt in progress has not answered yet)
OnlyRedirectsSoFar == redirCount >= attempts - 1

\* C1: with a transport answering redirects only, recursive_fetch makes exactly
\* max_redirects + 1 attempts and then returns the too-many-redirects error
\* carrying max_redirects; there is no further attempt and no Response
C1_RedirectLoopFails ==
    /\ OnlyRedirectsSoFar => attempts <= max_redirects + 1
    /\ (pc = "done" /\ redirCount = attempts) =>
          /\ attempts = max_redirects + 1
          /\ outcome = ErrOutcome("TooManyRedirects", max_redirects)

\* the first byte of a status of a known category other than Redirect
KnownFinal(status) == Len(status) >= 1 /\ status[1] \in {49, 50, 52, 53, 54}

\* C2: k <= max_redirects redirects followed by a response of another known
\* category: that response is returned after exactly k + 1 attempts, nothing
\* happens afterwards and no stream is left open; and each attempt after the
\* first requests the meta of the response before it
C2_ReturnsFirstFinalResponse ==
    /\ ( /\ response.tag = "Ok" /\ KnownFinal(response.status)
         /\ pc # "classify"
         /\ redirCount <= max_redirects )
       => /\ pc = "done"
          /\ outcome = OkOutcome(response)
          /\ response = parse_response(read_buf)
          /\ attempts = redirCount + 1
          /\ open = 0
          /\ ~ENABLED Next
    /\ outcome.kind = "Ok" =>
          /\ pc = "done" /\ outcome.response = response /\ KnownFinal(response.status)
          /\ attempts = redirCount + 1
    /\ (attempts >= 2 /\ redirCount = attempts - 1) => requested = prevMeta

\* a final response returned after at least one redirect was followed
C2_Witness ==
    /\ outcome.kind = "Ok" /\ redirCount >= 1 /\ redirCount <= max_redirects
    /\ outcome.response.status = <<50, 48>>

\* C8: a Response is decoded only from a buffer that holds the whole of what
\* the server sent; a read cut short makes fetch fail
C8_NoTruncatedResponse ==
    /\ truncated => response.tag # "Ok"
    /\ outcome.kind = "Ok" => ~truncated

C10_CounterNeverOverflows ==
    /\ attempts <= max_redirects + 1
    /\ ~overflowed

====
